---- MODULE Spec2Model ----
(***************************************************************************)
(* The micro-benchmark programs of the repository, each modelled as the    *)
(* run of its main(): one process, run to completion.                      *)
(*                                                                         *)
(*   prog   which program is running                                       *)
(*   pc     the function main() is in (or "done", "crashed")               *)
(*   loc    the locals: the statement of main() reached, the argument of   *)
(*          the function running, the loop counters, the scalars           *)
(*   glob   the program's global (static, zero-initialised) arrays         *)
(*   heap   the malloc'ed blocks: state, cells, which cells were written,  *)
(*          whether the block was read                                     *)
(*   rng    the state of the C library's rand()                            *)
(*   now    the processor time clock() last returned                       *)
(*   out    the lines printed so far                                       *)
(*   trace  the order of the events of main() (history)                    *)
(*   added  for each C[i][j], the k of the terms added so far (history)    *)
(*   faults the undefined behaviour met so far (history)                   *)
(*   run    1 for the first run of the program, 2 for its repetition       *)
(*   prev   what the first run printed, kept for the second                *)
(***************************************************************************)
EXTENDS Integers, Sequences, FiniteSets, TLC

VARIABLES prog, pc, loc, glob, heap, rng, now, out, trace, added, faults, run, prev

vars == <<prog, pc, loc, glob, heap, rng, now, out, trace, added, faults, run, prev>>

(***************************************************************************)
(* Bounds.  The compile-time sizes of the programs are scaled down.        *)
(***************************************************************************)
\* mmm.c: N is 128 in the source
MMM_N == 3
\* matrix_mult_unopt.c: SIZE is 256 in the source
MM_SIZE == 2
\* the largest n the two multiplication kernels are compared at
MUL_MAXN == 2
\* image_blur_unopt.c: WIDTH and HEIGHT are 512 in the source
WIDTH == 6
HEIGHT == 6
\* stream_bench.c: ARRAY_SIZE is 1024 * 1024 and REPEAT_COUNT is 10 in the source
ARRAY_SIZE == 2
REPEAT_COUNT == 4
\* kernel5.c: SIZE is 10000 in the source
K5_SIZE == 3
\* Lab_2/kernels/kernel2.c: N is 100000 in the source
BRANCH_N == 3
\* Lab_1/kernels/kernel2.c: SIZE is 10000 in the source; every SIZE from 1 to
\* this bound is run
LAB1_MAXSIZE == 4
\* the largest reading clock() returns
MaxClock == 2

(***************************************************************************)
(* Helpers.                                                                *)
(***************************************************************************)
Min(a, b) == IF a < b THEN a ELSE b
Max(a, b) == IF a > b THEN a ELSE b

Idx(n) == 0 .. (n - 1)

\* an n x n matrix of zeros: a global array before main() runs
ZeroMat(n) == [i \in Idx(n) |-> [j \in Idx(n) |-> 0]]

\* no term added yet to any C[i][j]
NoneAdded(n) == [i \in Idx(n) |-> [j \in Idx(n) |-> <<>>]]

RECURSIVE SumTo(_, _)
\* sum of f[k] for k in 0..n-1
SumTo(f, n) == IF n <= 0 THEN 0 ELSE SumTo(f, n - 1) + f[n - 1]

\* the dot product of row i of A and column j of B
Dot(A, B, i, j, n) == SumTo([k \in Idx(n) |-> A[i][k] * B[k][j]], n)

\* 0, 1, ..., n-1 in ascending order
Ascending(n) == [k \in 1 .. n |-> k - 1]

\* clock(): processor time never runs backwards
ClockReadings == {t \in {now, now + 1} : t <= MaxClock}

\* what an indeterminate value (an uninitialised or freed cell) may read as
Garbage == {0, 9}

NoHeap == <<>>
NoGlob == [none |-> 0]
NoAdded == <<>>

\* the locals before main() starts
Locals == [stmt |-> 1, arg |-> "-", n |-> 0, w |-> 0, h |-> 0,
           i |-> 0, j |-> 0, k |-> 0, x |-> 0, y |-> 0, rep |-> 0, block |-> 0,
           sum |-> 0, start |-> 0, end |-> 0, rc |-> 0]

(***************************************************************************)
(* main() of each program: its statements in order, each a call with the   *)
(* array it is given.                                                      *)
(***************************************************************************)
mmm_main == <<
    <<"clock_start", "-">>,
    <<"init_matrices", "-">>,
    <<"matrix_multiply_naive", "-">>,
    <<"clock_end", "-">>,
    <<"mmm_printf", "-">>,
    <<"return", "-">> >>

\* main() with the second clock() reading taken before the multiplication
matrix_mult_main_untimed == <<
    <<"srand", "-">>,
    <<"allocate_matrix", "A">>,
    <<"allocate_matrix", "B">>,
    <<"allocate_matrix", "C">>,
    <<"initialize_matrix", "A">>,
    <<"initialize_matrix", "B">>,
    <<"zero_matrix", "C">>,
    <<"clock_start", "-">>,
    <<"clock_end", "-">>,
    <<"matrix_multiply", "-">>,
    <<"printf_time", "-">>,
    <<"matrix_mult_printf", "-">>,
    <<"free_matrix", "A">>,
    <<"free_matrix", "B">>,
    <<"free_matrix", "C">>,
    <<"return", "-">> >>

matrix_mult_main == <<
    <<"srand", "-">>,
    <<"allocate_matrix", "A">>,
    <<"allocate_matrix", "B">>,
    <<"allocate_matrix", "C">>,
    <<"initialize_matrix", "A">>,
    <<"initialize_matrix", "B">>,
    <<"zero_matrix", "C">>,
    <<"clock_start", "-">>,
    <<"matrix_multiply", "-">>,
    <<"clock_end", "-">>,
    <<"printf_time", "-">>,
    <<"matrix_mult_printf", "-">>,
    <<"free_matrix", "A">>,
    <<"free_matrix", "B">>,
    <<"free_matrix", "C">>,
    <<"return", "-">> >>

stream_bench_main == <<
    <<"malloc", "a">>,
    <<"malloc", "b">>,
    <<"malloc", "c">>,
    <<"check_allocation", "-">>,
    <<"initialize_arrays", <<"a", "b", "c">> >>,
    <<"clock_start", "-">>,
    <<"stream_copy", <<"a", "c">> >>,
    <<"stream_scale", <<"c", "b">> >>,
    <<"stream_add", <<"a", "b", "c">> >>,
    <<"stream_triad", <<"a", "b", "c">> >>,
    <<"repeat", "-">>,
    <<"clock_end", "-">>,
    <<"printf_time", "-">>,
    <<"stream_bench_printf", "-">>,
    <<"printf_bandwidth", "-">>,
    <<"free", "a">>,
    <<"free", "b">>,
    <<"free", "c">>,
    <<"return", "-">> >>

kernel5_main == <<
    <<"kernel5_fill", "-">>,
    <<"kernel5_kernel", "-">>,
    <<"kernel5_printf", "-">>,
    <<"return", "-">> >>

branch_main == <<
    <<"branch_fill", "-">>,
    <<"branch_kernel", "-">>,
    <<"branch_printf", "-">>,
    <<"return", "-">> >>

tlb_main == <<
    <<"tlb_fill", "-">>,
    <<"tlb_kernel", "-">>,
    <<"tlb_printf", "-">>,
    <<"return", "-">> >>

lab1_main == <<
    <<"lab1_fill", "-">>,
    <<"lab1_kernel", "-">>,
    <<"lab1_printf", "-">>,
    <<"return", "-">> >>

image_blur_main == <<
    <<"allocate_image", "input">>,
    <<"allocate_image", "output">>,
    <<"initialize_image", "input">>,
    <<"clock_start", "-">>,
    <<"image_blur", "-">>,
    <<"clock_end", "-">>,
    <<"printf_time", "-">>,
    <<"image_blur_printf", "-">>,
    <<"free_image", "input">>,
    <<"free_image", "output">>,
    <<"return", "-">> >>

\* image_blur() called once on drawn arguments
image_blur_call == <<
    <<"image_blur", "-">>,
    <<"return", "-">> >>

\* the two multiplication kernels called one after the other on equal inputs
multiply_both == <<
    <<"matrix_multiply", "-">>,
    <<"matrix_multiply_naive", "-">>,
    <<"return", "-">> >>

Main(p) ==
    CASE p = "mmm" -> mmm_main
      [] p = "matrix_mult_unopt" -> matrix_mult_main
      [] p = "multiply_both" -> multiply_both
      [] p = "image_blur_unopt" -> image_blur_main
      [] p = "stream_bench" -> stream_bench_main
      [] p = "kernel5" -> kernel5_main
      [] p = "branch" -> branch_main
      [] p = "tlb" -> tlb_main
      [] p = "lab1" -> lab1_main
      [] p = "image_blur" -> image_blur_call

\* image_blur_unopt.c: KERNEL_SIZE and the offset KERNEL_SIZE / 2 of image_blur()
KERNEL_SIZE == 5

OFFSET == KERNEL_SIZE \div 2

\* the function running returns: main() goes on to its next statement
Return(l) ==
    [l EXCEPT !.stmt = l.stmt + 1,
              !.arg = Main(prog)[l.stmt + 1][2],
              !.i = 0, !.j = 0, !.k = 0,
              !.x = IF Main(prog)[l.stmt + 1][1] = "image_blur" THEN OFFSET ELSE 0,
              !.y = IF Main(prog)[l.stmt + 1][1] = "image_blur" THEN OFFSET ELSE 0]

Callee(l) == Main(prog)[l.stmt + 1][1]

(***************************************************************************)
(* The heap.  A block is named by the pointer that holds it: <<m, -1>> is  *)
(* the row-pointer array of matrix (or image) m and <<m, r>> its row r.    *)
(***************************************************************************)
NoBlock == [st |-> "none", cells |-> <<>>, wr |-> {}, rd |-> FALSE]

NullBlock == [st |-> "null", cells |-> <<>>, wr |-> {}, rd |-> FALSE]

\* malloc(len * sizeof ...): the cells are indeterminate until written
FreshBlock(len) ==
    [st |-> "live", cells |-> [c \in Idx(len) |-> 0], wr |-> {}, rd |-> FALSE]

\* a block all of whose cells were written, cell c holding f[c]
FilledBlock(f, len) ==
    [st |-> "live", cells |-> [c \in Idx(len) |-> f[c]], wr |-> Idx(len),
     rd |-> FALSE]

\* the undefined behaviour of an access to cell c of block b
BlockFaults(h, b, c, isRead) ==
    IF b \notin DOMAIN h THEN {"out_of_bounds"}
    ELSE CASE h[b].st = "none" -> {"wild_pointer"}
           [] h[b].st = "null" -> {"null_deref"}
           [] h[b].st = "freed" -> {"use_after_free"}
           [] OTHER ->
                IF c \notin DOMAIN h[b].cells THEN {"out_of_bounds"}
                ELSE IF isRead /\ c \notin h[b].wr THEN {"uninitialised_read"}
                ELSE {}

\* the undefined behaviour of an access to m[r][c]: matrix[r] is read, then
\* its cell c is read or written
ElemFaults(h, m, r, c, isRead) ==
    LET p == BlockFaults(h, <<m, -1>>, r, TRUE)
    IN  IF p # {} THEN p ELSE BlockFaults(h, <<m, r>>, c, isRead)

\* the values a read of m[r][c] may give
ElemVals(h, m, r, c) ==
    IF ElemFaults(h, m, r, c, TRUE) = {} THEN {h[<<m, r>>].cells[c]}
    ELSE Garbage

\* the heap after m[r][c] was read
ElemRead(h, m, r, c) ==
    IF ElemFaults(h, m, r, c, TRUE) = {}
    THEN [h EXCEPT ![<<m, -1>>].rd = TRUE, ![<<m, r>>].rd = TRUE]
    ELSE h

\* the heap after m[r][c] = v
ElemWrite(h, m, r, c, v) ==
    IF ElemFaults(h, m, r, c, FALSE) = {}
    THEN [h EXCEPT ![<<m, -1>>].rd = TRUE,
                   ![<<m, r>>].cells[c] = v,
                   ![<<m, r>>].wr = @ \cup {c}]
    ELSE h

\* the undefined behaviour of free(p), p the pointer that holds block b
FreeFaults(h, b) ==
    CASE h[b].st = "none" -> {"wild_pointer"}
      [] h[b].st = "freed" -> {"double_free"}
      [] OTHER -> {}

\* the heap after free(p): free(NULL) does nothing
Free(h, b) ==
    IF h[b].st = "live" THEN [h EXCEPT ![b].st = "freed"] ELSE h

\* the elements of the n x n matrix m, as a function
MatrixOf(h, m, n) == [i \in Idx(n) |-> [j \in Idx(n) |-> h[<<m, i>>].cells[j]]]

(***************************************************************************)
(* The C library's rand(): a linear congruential generator, whose output   *)
(* depends on nothing but its state, which srand(seed) sets and which is 1 *)
(* in a process that never called srand.                                   *)
(***************************************************************************)
RandNext(s) == (s * 75 + 74) % 65537

DefaultSeed == 1

(***************************************************************************)
(* Statements shared by the programs that time their kernel.               *)
(***************************************************************************)
\* clock_t start = clock();
clock_start ==
    /\ pc = "clock_start"
    /\ \E t \in ClockReadings :
          /\ now' = t
          /\ loc' = [Return(loc) EXCEPT !.start = t]
    /\ pc' = Callee(loc)
    /\ trace' = Append(trace, "clock")
    /\ UNCHANGED <<prog, glob, heap, rng, out, added, faults, run, prev>>

\* clock_t end = clock();
clock_end ==
    /\ pc = "clock_end"
    /\ \E t \in ClockReadings :
          /\ now' = t
          /\ loc' = [Return(loc) EXCEPT !.end = t]
    /\ pc' = Callee(loc)
    /\ trace' = Append(trace, "clock")
    /\ UNCHANGED <<prog, glob, heap, rng, out, added, faults, run, prev>>

\* time_taken = (double)(end - start) / CLOCKS_PER_SEC; printf("... completed
\* in %f seconds\n", time_taken);
printf_time ==
    /\ pc = "printf_time"
    /\ out' = Append(out, [line |-> "time", v |-> <<loc.end - loc.start>>])
    /\ pc' = Callee(loc)
    /\ loc' = Return(loc)
    /\ trace' = Append(trace, "print_time")
    /\ UNCHANGED <<prog, glob, heap, rng, now, added, faults, run, prev>>

\* return 0; at the end of main()
main_return ==
    /\ pc = "return"
    /\ pc' = "done"
    /\ loc' = [loc EXCEPT !.rc = 0]
    /\ trace' = Append(trace, "return")
    /\ UNCHANGED <<prog, glob, heap, rng, now, out, added, faults, run, prev>>

(***************************************************************************)
(* Lab_2/kernels/mmm.c                                                     *)
(***************************************************************************)
\* float A[N][N], B[N][N], C[N][N]; before main() starts
mmm_Start ==
    [pc |-> "clock_start",
     loc |-> [Locals EXCEPT !.n = MMM_N],
     glob |-> [A |-> ZeroMat(MMM_N), B |-> ZeroMat(MMM_N), C |-> ZeroMat(MMM_N)],
     heap |-> NoHeap,
     added |-> [ijk |-> NoneAdded(MMM_N)]]

\* the values init_matrices() gives A[i][j] and B[i][j]
InitA(i, j) == i + j

\* B[i][j] = (float)(j - i): the operands of the subtraction exchanged
InitB_exchanged(i, j) == j - i

InitB(i, j) == i - j

\* init_matrices(): A[i][j] = i + j, B[i][j] = i - j, C[i][j] = 0
init_matrices ==
    /\ pc = "init_matrices"
    /\ glob' = [A |-> [i \in Idx(MMM_N) |-> [j \in Idx(MMM_N) |-> InitA(i, j)]],
                B |-> [i \in Idx(MMM_N) |-> [j \in Idx(MMM_N) |-> InitB(i, j)]],
                C |-> [i \in Idx(MMM_N) |-> [j \in Idx(MMM_N) |-> 0]]]
    /\ pc' = Callee(loc)
    /\ loc' = Return(loc)
    /\ trace' = Append(trace, "fill")
    /\ UNCHANGED <<prog, heap, rng, now, out, added, faults, run, prev>>

\* the counters after one more turn of the loop nest i, j, k (k innermost)
NaiveNext(l) ==
    IF l.k + 1 < l.n THEN [l EXCEPT !.k = l.k + 1]
    ELSE IF l.j + 1 < l.n THEN [l EXCEPT !.k = 0, !.j = l.j + 1]
    ELSE [l EXCEPT !.k = 0, !.j = 0, !.i = l.i + 1]

\* matrix_multiply_naive(): one turn of the innermost loop,
\* C[i][j] += A[i][k] * B[k][j]; the loop nest ends when i reaches N
matrix_multiply_naive ==
    /\ pc = "matrix_multiply_naive"
    /\ IF loc.n > 0 /\ loc.i < loc.n
       THEN /\ glob' = [glob EXCEPT !.C[loc.i][loc.j] =
                           @ + glob.A[loc.i][loc.k] * glob.B[loc.k][loc.j]]
            /\ added' = [added EXCEPT !.ijk[loc.i][loc.j] = Append(@, loc.k)]
            /\ loc' = NaiveNext(loc)
            /\ UNCHANGED <<pc, trace>>
       ELSE /\ pc' = Callee(loc)
            /\ loc' = Return(loc)
            /\ trace' = Append(trace, "kernel")
            /\ UNCHANGED <<glob, added>>
    /\ UNCHANGED <<prog, heap, rng, now, out, faults, run, prev>>

\* printf("Done MMM Naive. C[0][0]=%f Time=%.2f ms\n", C[0][0], ...);
mmm_printf ==
    /\ pc = "mmm_printf"
    /\ out' = Append(out, [line |-> "checksum_time",
                           v |-> <<glob.C[0][0], loc.end - loc.start>>])
    /\ pc' = Callee(loc)
    /\ loc' = Return(loc)
    /\ trace' = Append(trace, "print_checksum_time")
    /\ UNCHANGED <<prog, glob, heap, rng, now, added, faults, run, prev>>

(***************************************************************************)
(* kernels/matrix_mult_unopt.c.  An element is held in tenths (it is       *)
(* (rand() % 100) / 10.0) and an element of C in hundredths.               *)
(***************************************************************************)
\* the process before main() starts: A, B, C hold no block yet
matrix_mult_Start ==
    [pc |-> "srand",
     loc |-> [Locals EXCEPT !.n = MM_SIZE],
     glob |-> NoGlob,
     heap |-> [b \in {"A", "B", "C"} \X (-1 .. MM_SIZE - 1) |-> NoBlock],
     added |-> [ikj |-> NoneAdded(MM_SIZE)]]

\* the seed main() gives srand()
MM_SEED == 42

\* srand(42);
srand ==
    /\ pc = "srand"
    /\ rng' = MM_SEED
    /\ pc' = Callee(loc)
    /\ loc' = Return(loc)
    /\ UNCHANGED <<prog, glob, heap, now, out, trace, added, faults, run, prev>>

\* matrix = malloc(rows * sizeof(T*)), then matrix[i] = malloc(len * sizeof(T))
\* for each i; no result is checked, so a write through a null matrix kills
\* the process
AllocateRows(m, rows, len) ==
    /\ IF heap[<<m, -1>>].st = "none"
       THEN /\ \E got \in {FreshBlock(rows), NullBlock} :
                  heap' = [heap EXCEPT ![<<m, -1>>] = got]
            /\ UNCHANGED <<pc, loc, trace, faults>>
       ELSE IF loc.i < rows
       THEN IF heap[<<m, -1>>].st = "null"
            THEN /\ pc' = "crashed"
                 /\ faults' = faults \cup {"null_deref"}
                 /\ UNCHANGED <<heap, loc, trace>>
            ELSE /\ \E got \in {FreshBlock(len), NullBlock} :
                       heap' = [heap EXCEPT
                           ![<<m, loc.i>>] = got,
                           ![<<m, -1>>].cells[loc.i] =
                               IF got.st = "live" THEN 1 ELSE 0,
                           ![<<m, -1>>].wr = @ \cup {loc.i}]
                 /\ loc' = [loc EXCEPT !.i = loc.i + 1]
                 /\ UNCHANGED <<pc, trace, faults>>
       ELSE /\ pc' = Callee(loc)
            /\ loc' = Return(loc)
            /\ trace' = Append(trace, "alloc")
            /\ UNCHANGED <<heap, faults>>
    /\ UNCHANGED <<prog, glob, rng, now, out, added, run, prev>>

\* free(matrix) first, then free(matrix[i]) for each i
FreeRows_pointers_first(m, rows) ==
    /\ IF heap[<<m, -1>>].st = "live"
       THEN /\ heap' = Free(heap, <<m, -1>>)
            /\ UNCHANGED <<pc, loc, trace, faults>>
       ELSE IF loc.i < rows
       THEN /\ heap' = Free(heap, <<m, loc.i>>)
            /\ faults' = faults \cup BlockFaults(heap, <<m, -1>>, loc.i, TRUE)
                                 \cup FreeFaults(heap, <<m, loc.i>>)
            /\ loc' = [loc EXCEPT !.i = loc.i + 1]
            /\ UNCHANGED <<pc, trace>>
       ELSE /\ pc' = Callee(loc)
            /\ loc' = Return(loc)
            /\ trace' = Append(trace, "free")
            /\ UNCHANGED <<heap, faults>>
    /\ UNCHANGED <<prog, glob, rng, now, out, added, run, prev>>

\* free(matrix[i]) for each i, then free(matrix)
FreeRows(m, rows) ==
    /\ IF loc.i < rows
       THEN /\ heap' = Free(heap, <<m, loc.i>>)
            /\ faults' = faults \cup BlockFaults(heap, <<m, -1>>, loc.i, TRUE)
                                 \cup FreeFaults(heap, <<m, loc.i>>)
            /\ loc' = [loc EXCEPT !.i = loc.i + 1]
            /\ UNCHANGED <<pc, trace>>
       ELSE /\ heap' = Free(heap, <<m, -1>>)
            /\ faults' = faults \cup FreeFaults(heap, <<m, -1>>)
            /\ pc' = Callee(loc)
            /\ loc' = Return(loc)
            /\ trace' = Append(trace, "free")
    /\ UNCHANGED <<prog, glob, rng, now, out, added, run, prev>>

\* allocate_matrix(n)
allocate_matrix ==
    /\ pc = "allocate_matrix"
    /\ AllocateRows(loc.arg, loc.n, loc.n)

\* the counters after one more turn of a loop nest i, j (j innermost)
RowMajorNext(l) ==
    IF l.j + 1 < l.n THEN [l EXCEPT !.j = l.j + 1]
    ELSE [l EXCEPT !.j = 0, !.i = l.i + 1]

\* initialize_matrix(matrix, n): matrix[i][j] = (double)(rand() % 100) / 10.0;
\* an element is held as its number of tenths, rand() % 100, so a product of
\* two elements is a number of hundredths
initialize_matrix ==
    /\ pc = "initialize_matrix"
    /\ LET m == loc.arg
           f == ElemFaults(heap, m, loc.i, loc.j, FALSE)
       IN  IF loc.i < loc.n
           THEN IF "null_deref" \in f
                THEN /\ pc' = "crashed"
                     /\ faults' = faults \cup f
                     /\ UNCHANGED <<heap, loc, trace, rng>>
                ELSE /\ rng' = RandNext(rng)
                     /\ heap' = ElemWrite(heap, m, loc.i, loc.j, rng' % 100)
                     /\ faults' = faults \cup f
                     /\ loc' = RowMajorNext(loc)
                     /\ UNCHANGED <<pc, trace>>
           ELSE /\ pc' = Callee(loc)
                /\ loc' = Return(loc)
                /\ trace' = Append(trace, "fill")
                /\ UNCHANGED <<heap, faults, rng>>
    /\ UNCHANGED <<prog, glob, now, out, added, run, prev>>

\* zero_matrix() writing nothing
zero_matrix_nothing ==
    /\ pc = "zero_matrix"
    /\ pc' = Callee(loc)
    /\ loc' = Return(loc)
    /\ trace' = Append(trace, "fill")
    /\ UNCHANGED <<prog, glob, heap, rng, now, out, added, faults, run, prev>>

\* zero_matrix(matrix, n): matrix[i][j] = 0.0
zero_matrix ==
    /\ pc = "zero_matrix"
    /\ LET m == loc.arg
           f == ElemFaults(heap, m, loc.i, loc.j, FALSE)
       IN  IF loc.i < loc.n
           THEN IF "null_deref" \in f
                THEN /\ pc' = "crashed"
                     /\ faults' = faults \cup f
                     /\ UNCHANGED <<heap, loc, trace>>
                ELSE /\ heap' = ElemWrite(heap, m, loc.i, loc.j, 0)
                     /\ faults' = faults \cup f
                     /\ loc' = RowMajorNext(loc)
                     /\ UNCHANGED <<pc, trace>>
           ELSE /\ pc' = Callee(loc)
                /\ loc' = Return(loc)
                /\ trace' = Append(trace, "fill")
                /\ UNCHANGED <<heap, faults>>
    /\ UNCHANGED <<prog, glob, rng, now, out, added, run, prev>>

\* the loop over k stopping one turn early: k < n - 1
MultiplyNext_short(l) ==
    IF l.j + 1 < l.n THEN [l EXCEPT !.j = l.j + 1]
    ELSE IF l.k + 1 < l.n - 1 THEN [l EXCEPT !.j = 0, !.k = l.k + 1]
    ELSE [l EXCEPT !.j = 0, !.k = 0, !.i = l.i + 1]

\* the counters after one more turn of the loop nest i, k, j (j innermost)
MultiplyNext(l) ==
    IF l.j + 1 < l.n THEN [l EXCEPT !.j = l.j + 1]
    ELSE IF l.k + 1 < l.n THEN [l EXCEPT !.j = 0, !.k = l.k + 1]
    ELSE [l EXCEPT !.j = 0, !.k = 0, !.i = l.i + 1]

\* matrix_multiply(A, B, C, n): one turn of the innermost loop,
\* C[i][j] += A[i][k] * B[k][j]
matrix_multiply ==
    /\ pc = "matrix_multiply"
    /\ LET i == loc.i
           j == loc.j
           k == loc.k
           f == ElemFaults(heap, "A", i, k, TRUE)
                  \cup ElemFaults(heap, "B", k, j, TRUE)
                  \cup ElemFaults(heap, "C", i, j, TRUE)
       IN  IF loc.n > 0 /\ i < loc.n
           THEN IF "null_deref" \in f
                THEN /\ pc' = "crashed"
                     /\ faults' = faults \cup f
                     /\ UNCHANGED <<heap, loc, trace, added>>
                ELSE /\ \E a \in ElemVals(heap, "A", i, k),
                           b \in ElemVals(heap, "B", k, j),
                           c \in ElemVals(heap, "C", i, j) :
                           heap' = ElemWrite(
                               ElemRead(ElemRead(ElemRead(heap, "A", i, k),
                                                 "B", k, j), "C", i, j),
                               "C", i, j, c + a * b)
                     /\ added' = [added EXCEPT !.ikj[i][j] = Append(@, k)]
                     /\ faults' = faults \cup f
                     /\ loc' = MultiplyNext(loc)
                     /\ UNCHANGED <<pc, trace>>
           ELSE /\ pc' = Callee(loc)
                /\ loc' = Return(loc)
                /\ trace' = Append(trace, "kernel")
                /\ UNCHANGED <<heap, faults, added>>
    /\ UNCHANGED <<prog, glob, rng, now, out, run, prev>>

\* the index of the second element printed: 100 in the source, where SIZE is
\* 256; the last one of a smaller matrix
MM_CHK == Min(100, MM_SIZE - 1)

\* printf("Result checksum: C[0][0] = %f, C[100][100] = %f\n", ...);
matrix_mult_printf ==
    /\ pc = "matrix_mult_printf"
    /\ LET f == ElemFaults(heap, "C", 0, 0, TRUE)
                  \cup ElemFaults(heap, "C", MM_CHK, MM_CHK, TRUE)
       IN  /\ \E c0 \in ElemVals(heap, "C", 0, 0),
                 c1 \in ElemVals(heap, "C", MM_CHK, MM_CHK) :
                 out' = Append(out, [line |-> "checksum", v |-> <<c0, c1>>])
           /\ heap' = ElemRead(ElemRead(heap, "C", 0, 0), "C", MM_CHK, MM_CHK)
           /\ faults' = faults \cup f
    /\ pc' = Callee(loc)
    /\ loc' = Return(loc)
    /\ trace' = Append(trace, "print_checksum")
    /\ UNCHANGED <<prog, glob, rng, now, added, run, prev>>

\* free_matrix(matrix, n)
free_matrix ==
    /\ pc = "free_matrix"
    /\ FreeRows(loc.arg, loc.n)

(***************************************************************************)
(* matrix_multiply() and matrix_multiply_naive() on equal inputs: n, A, B  *)
(* and the C on entry are drawn; the first works on heap matrices, the     *)
(* second on the global arrays, which hold the same elements.              *)
(***************************************************************************)
\* the matrices the inputs are drawn from: element (i, j) is a*i + b*j + c
Coefficients == {<<1, 1, 0>>, <<1, 2, 1>>, <<2, 0, 1>>, <<0, 3, 2>>}

Pattern(q, n) == [i \in Idx(n) |-> [j \in Idx(n) |-> q[1] * i + q[2] * j + q[3]]]

multiply_both_Starts ==
    {[pc |-> "matrix_multiply",
      loc |-> [Locals EXCEPT !.n = n],
      glob |-> [A |-> Pattern(qa, n), B |-> Pattern(qb, n), C |-> Pattern(qc, n),
                A0 |-> Pattern(qa, n), B0 |-> Pattern(qb, n),
                C0 |-> Pattern(qc, n)],
      heap |-> [b \in {"A", "B", "C"} \X (-1 .. n - 1) |->
                  IF b[2] = -1 THEN FilledBlock([r \in Idx(n) |-> 1], n)
                  ELSE FilledBlock(
                         Pattern(CASE b[1] = "A" -> qa [] b[1] = "B" -> qb
                                   [] OTHER -> qc, n)[b[2]], n)],
      added |-> [ikj |-> NoneAdded(n), ijk |-> NoneAdded(n)]] :
        n \in 0 .. MUL_MAXN, qa \in Coefficients, qb \in Coefficients,
        qc \in {<<0, 0, 0>>, <<1, 1, 1>>}}

(***************************************************************************)
(* kernels/image_blur_unopt.c                                              *)
(***************************************************************************)
\* the kernel with 4 in its centre
kernel_heavy == << <<1, 1, 1, 1, 1>>,
                   <<1, 2, 2, 2, 1>>,
                   <<1, 2, 4, 2, 1>>,
                   <<1, 2, 2, 2, 1>>,
                   <<1, 1, 1, 1, 1>> >>

\* int kernel[KERNEL_SIZE][KERNEL_SIZE]
kernel == << <<1, 1, 1, 1, 1>>,
             <<1, 2, 2, 2, 1>>,
             <<1, 2, 3, 2, 1>>,
             <<1, 2, 2, 2, 1>>,
             <<1, 1, 1, 1, 1>> >>

\* int kernel_sum = 35;
kernel_sum == 35

\* the process before main() starts: input and output hold no block yet
image_blur_Start ==
    [pc |-> "allocate_image",
     loc |-> [Locals EXCEPT !.arg = "input", !.w = WIDTH, !.h = HEIGHT],
     glob |-> NoGlob,
     heap |-> [b \in {"input", "output"} \X (-1 .. HEIGHT - 1) |-> NoBlock],
     added |-> NoAdded]

\* allocate_image(width, height)
allocate_image ==
    /\ pc = "allocate_image"
    /\ AllocateRows(loc.arg, loc.h, loc.w)

\* free_image(image, height)
free_image ==
    /\ pc = "free_image"
    /\ FreeRows(loc.arg, loc.h)

\* the counters after one more turn of the loop nest x, y (y innermost)
ColumnMajorNext(l) ==
    IF l.y + 1 < l.h THEN [l EXCEPT !.y = l.y + 1]
    ELSE [l EXCEPT !.y = 0, !.x = l.x + 1]

\* initialize_image(image, width, height): image[y][x] = (x + y) % 256
initialize_image ==
    /\ pc = "initialize_image"
    /\ LET m == loc.arg
           f == ElemFaults(heap, m, loc.y, loc.x, FALSE)
       IN  IF loc.x < loc.w /\ loc.h > 0
           THEN IF "null_deref" \in f
                THEN /\ pc' = "crashed"
                     /\ faults' = faults \cup f
                     /\ UNCHANGED <<heap, loc, trace>>
                ELSE /\ heap' = ElemWrite(heap, m, loc.y, loc.x,
                                          (loc.x + loc.y) % 256)
                     /\ faults' = faults \cup f
                     /\ loc' = ColumnMajorNext(loc)
                     /\ UNCHANGED <<pc, trace>>
           ELSE /\ pc' = Callee(loc)
                /\ loc' = Return(loc)
                /\ trace' = Append(trace, "fill")
                /\ UNCHANGED <<heap, faults>>
    /\ UNCHANGED <<prog, glob, rng, now, out, added, run, prev>>

\* the turns of the two kernel loops, kx outside and ky inside
KernelTurns ==
    [t \in 1 .. KERNEL_SIZE * KERNEL_SIZE |->
        <<((t - 1) \div KERNEL_SIZE) - OFFSET, ((t - 1) % KERNEL_SIZE) - OFFSET>>]

RECURSIVE Convolve(_, _, _, _)
\* sum += input[y + ky][x + kx] * kernel[ky + offset][kx + offset] over the
\* first t turns of the kernel loops
Convolve(h, x, y, t) ==
    IF t = 0 THEN 0
    ELSE LET kx == KernelTurns[t][1]
             ky == KernelTurns[t][2]
         IN  Convolve(h, x, y, t - 1)
               + h[<<"input", y + ky>>].cells[x + kx]
                   * kernel[ky + OFFSET + 1][kx + OFFSET + 1]

\* the undefined behaviour of the reads of input and of the write of output
\* in the turn (x, y) of image_blur
BlurFaults(h, x, y) ==
    UNION {ElemFaults(h, "input", y + KernelTurns[t][2], x + KernelTurns[t][1],
                      TRUE) : t \in DOMAIN KernelTurns}
      \cup ElemFaults(h, "output", y, x, FALSE)

\* the heap after the rows y - offset .. y + offset of input were read
BlurRead(h, y) ==
    [b \in DOMAIN h |->
        IF b[1] = "input" /\ (b[2] = -1 \/ (b[2] >= y - OFFSET /\ b[2] <= y + OFFSET))
        THEN [h[b] EXCEPT !.rd = TRUE]
        ELSE h[b]]

\* the store of an int into an unsigned char
ToUnsignedChar(v) == v % 256

\* image_blur(input, output, width, height): one turn of the loop over y
\* (inside the loop over x), output[y][x] = sum / kernel_sum
image_blur ==
    /\ pc = "image_blur"
    /\ LET x == loc.x
           y == loc.y
           f == BlurFaults(heap, x, y)
       IN  IF x < loc.w - OFFSET
           THEN IF y < loc.h - OFFSET
                THEN IF "null_deref" \in f
                     THEN /\ pc' = "crashed"
                          /\ faults' = faults \cup f
                          /\ UNCHANGED <<heap, loc, trace>>
                     ELSE /\ \E sum \in (IF f = {}
                                          THEN {Convolve(heap, x, y,
                                                    KERNEL_SIZE * KERNEL_SIZE)}
                                          ELSE Garbage) :
                                heap' = ElemWrite(BlurRead(heap, y), "output", y, x,
                                            ToUnsignedChar(sum \div kernel_sum))
                          /\ faults' = faults \cup f
                          /\ loc' = [loc EXCEPT !.y = y + 1]
                          /\ UNCHANGED <<pc, trace>>
                ELSE /\ loc' = [loc EXCEPT !.x = x + 1, !.y = OFFSET]
                     /\ UNCHANGED <<pc, heap, faults, trace>>
           ELSE /\ pc' = Callee(loc)
                /\ loc' = Return(loc)
                /\ trace' = Append(trace, "kernel")
                /\ UNCHANGED <<heap, faults>>
    /\ UNCHANGED <<prog, glob, rng, now, out, added, run, prev>>

\* the index of a pixel printed, 100 or 200 in the source, where the image
\* is 512 pixels wide and high: in a smaller image, the nearest pixel that is
\* as far from the border as that one is
Printed(v, dim) == Max(OFFSET, Min(v, dim - OFFSET - 1))

\* printf("Result checksum: output[100][100] = %d, output[200][200] = %d\n", ...)
image_blur_printf ==
    /\ pc = "image_blur_printf"
    /\ LET y1 == Printed(100, loc.h)
           x1 == Printed(100, loc.w)
           y2 == Printed(200, loc.h)
           x2 == Printed(200, loc.w)
       IN  /\ \E c1 \in ElemVals(heap, "output", y1, x1),
                 c2 \in ElemVals(heap, "output", y2, x2) :
                 out' = Append(out, [line |-> "checksum", v |-> <<c1, c2>>])
           /\ heap' = ElemRead(ElemRead(heap, "output", y1, x1), "output", y2, x2)
           /\ faults' = faults \cup ElemFaults(heap, "output", y1, x1, TRUE)
                                \cup ElemFaults(heap, "output", y2, x2, TRUE)
    /\ pc' = Callee(loc)
    /\ loc' = Return(loc)
    /\ trace' = Append(trace, "print_checksum")
    /\ UNCHANGED <<prog, glob, rng, now, added, run, prev>>

(***************************************************************************)
(* image_blur() on drawn arguments: any width and height up to the bound,  *)
(* an input of pixels in 0..255, an output with contents of its own.       *)
(***************************************************************************)
\* the images the input is drawn from
InputImages(w, h) ==
    {[y \in Idx(h) |-> [x \in Idx(w) |-> 0]],
     [y \in Idx(h) |-> [x \in Idx(w) |-> 255]],
     [y \in Idx(h) |-> [x \in Idx(w) |-> (x + y + 250) % 256]],
     [y \in Idx(h) |-> [x \in Idx(w) |-> IF (x + y) % 2 = 0 THEN 255 ELSE 3]]}

\* what the output holds on entry
OutputImages(w, h) ==
    {[y \in Idx(h) |-> [x \in Idx(w) |-> 7]],
     [y \in Idx(h) |-> [x \in Idx(w) |-> 200 + x]]}

ImageBlocks(m, img, w, h) ==
    [b \in {m} \X (-1 .. h - 1) |->
        IF b[2] = -1 THEN FilledBlock([r \in Idx(h) |-> 1], h)
        ELSE FilledBlock(img[b[2]], w)]

image_blur_StartsAt(w, h) ==
    {[pc |-> "image_blur",
      loc |-> [Locals EXCEPT !.w = w, !.h = h, !.x = OFFSET, !.y = OFFSET],
      glob |-> [input0 |-> in, output0 |-> outp],
      heap |-> [b \in {"input", "output"} \X (-1 .. h - 1) |->
                  IF b[1] = "input" THEN ImageBlocks("input", in, w, h)[b]
                  ELSE [ImageBlocks("output", outp, w, h)[b] EXCEPT
                           !.wr = IF b[2] = -1 THEN @ ELSE {}]],
      added |-> NoAdded] :
        in \in InputImages(w, h), outp \in OutputImages(w, h)}

image_blur_Starts ==
    UNION {image_blur_StartsAt(w, h) : w \in 0 .. WIDTH, h \in 0 .. HEIGHT}

(***************************************************************************)
(* kernels/stream_bench.c.  A double is held as <<m, e>>, the number       *)
(* m / 2^e in lowest terms; every value the program computes is such a     *)
(* number, with m below 2^53, so the double arithmetic is exact.           *)
(***************************************************************************)
RECURSIVE Pow2(_)
Pow2(e) == IF e = 0 THEN 1 ELSE 2 * Pow2(e - 1)

RECURSIVE Lowest(_)
Lowest(d) ==
    IF d[1] = 0 THEN <<0, 0>>
    ELSE IF d[2] > 0 /\ d[1] % 2 = 0 THEN Lowest(<<d[1] \div 2, d[2] - 1>>)
    ELSE d

\* x + y
Plus(x, y) ==
    LET e == Max(x[2], y[2])
    IN  Lowest(<<x[1] * Pow2(e - x[2]) + y[1] * Pow2(e - y[2]), e>>)

\* x * y
Times(x, y) == Lowest(<<x[1] * y[1], x[2] + y[2]>>)

\* the double constants of stream_bench.c: 1.0, 2.0, 0.0 of
\* initialize_arrays, 2.5 and 1.5 of main
One == <<1, 0>>

Two == <<2, 0>>

Zero == <<0, 0>>

ScaleScalar == <<5, 1>>

TriadScalar == <<3, 1>>

\* what an indeterminate double may read as
GarbageDouble == {<<0, 0>>, <<9, 0>>}

\* the process before main() starts: a, b, c hold no block yet
stream_bench_Start ==
    [pc |-> "malloc",
     loc |-> [Locals EXCEPT !.arg = "a", !.n = ARRAY_SIZE],
     glob |-> NoGlob,
     heap |-> [b \in {"a", "b", "c"} \X {0} |-> NoBlock],
     added |-> NoAdded]

\* the undefined behaviour of an access to p[i]
ArrayFaults(h, p, i, isRead) == BlockFaults(h, <<p, 0>>, i, isRead)

\* the values a read of p[i] may give
ArrayVals(h, p, i) ==
    IF ArrayFaults(h, p, i, TRUE) = {} THEN {h[<<p, 0>>].cells[i]}
    ELSE GarbageDouble

\* the heap after p[i] was read
ArrayRead(h, p, i) ==
    IF ArrayFaults(h, p, i, TRUE) = {} THEN [h EXCEPT ![<<p, 0>>].rd = TRUE]
    ELSE h

\* the heap after p[i] = v
ArrayWrite(h, p, i, v) ==
    IF ArrayFaults(h, p, i, FALSE) = {}
    THEN [h EXCEPT ![<<p, 0>>].cells[i] = v, ![<<p, 0>>].wr = @ \cup {i}]
    ELSE h

\* double *p = (double*)malloc(ARRAY_SIZE * sizeof(double)); for p = a, b, c
malloc ==
    /\ pc = "malloc"
    /\ \E got \in {FreshBlock(ARRAY_SIZE), NullBlock} :
          heap' = [heap EXCEPT ![<<loc.arg, 0>>] = got]
    /\ pc' = Callee(loc)
    /\ loc' = Return(loc)
    /\ trace' = Append(trace, "alloc")
    /\ UNCHANGED <<prog, glob, rng, now, out, added, faults, run, prev>>

\* !a && !b && !c
AllocationFailed_all(h) ==
    /\ h[<<"a", 0>>].st = "null"
    /\ h[<<"b", 0>>].st = "null"
    /\ h[<<"c", 0>>].st = "null"

\* !a || !b || !c
AllocationFailed(h) ==
    \/ h[<<"a", 0>>].st = "null"
    \/ h[<<"b", 0>>].st = "null"
    \/ h[<<"c", 0>>].st = "null"

\* if (!a || !b || !c) { printf("Memory allocation failed\n"); return 1; }
check_allocation ==
    /\ pc = "check_allocation"
    /\ IF AllocationFailed(heap)
       THEN /\ out' = Append(out, [line |-> "Memory allocation failed", v |-> <<>>])
            /\ pc' = "done"
            /\ loc' = [loc EXCEPT !.rc = 1]
            /\ trace' = Append(trace, "return")
       ELSE /\ pc' = Callee(loc)
            /\ loc' = Return(loc)
            /\ UNCHANGED <<out, trace>>
    /\ UNCHANGED <<prog, glob, heap, rng, now, added, faults, run, prev>>

\* one turn of the loop of a stream function that writes v to dst[i], the
\* arrays in reads having been read; after the last turn the function returns
StreamTurn(reads, dst, vals, f, event) ==
    /\ IF loc.i < loc.n
       THEN IF "null_deref" \in f
            THEN /\ pc' = "crashed"
                 /\ faults' = faults \cup f
                 /\ UNCHANGED <<heap, loc, trace>>
            ELSE /\ \E v \in vals :
                       heap' = ArrayWrite(
                           [b \in DOMAIN heap |->
                               IF b[1] \in reads /\ ArrayFaults(heap, b[1], loc.i, TRUE) = {}
                               THEN [heap[b] EXCEPT !.rd = TRUE] ELSE heap[b]],
                           dst, loc.i, v)
                 /\ faults' = faults \cup f
                 /\ loc' = [loc EXCEPT !.i = loc.i + 1]
                 /\ UNCHANGED <<pc, trace>>
       ELSE /\ pc' = Callee(loc)
            /\ loc' = Return(loc)
            /\ trace' = Append(trace, event)
            /\ UNCHANGED <<heap, faults>>
    /\ UNCHANGED <<prog, glob, rng, now, out, added, run, prev>>

\* initialize_arrays(a, b, c, n): a[i] = 1.0; b[i] = 2.0; c[i] = 0.0;
initialize_arrays ==
    /\ pc = "initialize_arrays"
    /\ LET a == loc.arg[1]
           b == loc.arg[2]
           c == loc.arg[3]
           f == ArrayFaults(heap, a, loc.i, FALSE)
                  \cup ArrayFaults(heap, b, loc.i, FALSE)
                  \cup ArrayFaults(heap, c, loc.i, FALSE)
       IN  /\ IF loc.i < loc.n
              THEN IF "null_deref" \in f
                   THEN /\ pc' = "crashed"
                        /\ UNCHANGED <<heap, loc, trace>>
                   ELSE /\ heap' = ArrayWrite(ArrayWrite(ArrayWrite(heap,
                                        a, loc.i, One), b, loc.i, Two), c, loc.i, Zero)
                        /\ loc' = [loc EXCEPT !.i = loc.i + 1]
                        /\ UNCHANGED <<pc, trace>>
              ELSE /\ pc' = Callee(loc)
                   /\ loc' = Return(loc)
                   /\ trace' = Append(trace, "fill")
                   /\ UNCHANGED heap
           /\ faults' = IF loc.i < loc.n THEN faults \cup f ELSE faults
    /\ UNCHANGED <<prog, glob, rng, now, out, added, run, prev>>

\* stream_copy(a, b, n): b[i] = a[i]
stream_copy ==
    /\ pc = "stream_copy"
    /\ LET a == loc.arg[1]
           b == loc.arg[2]
       IN  StreamTurn({a}, b, ArrayVals(heap, a, loc.i),
                      ArrayFaults(heap, a, loc.i, TRUE)
                        \cup ArrayFaults(heap, b, loc.i, FALSE),
                      "stream_copy")

\* stream_scale(a, b, scalar, n): b[i] = scalar * a[i]
stream_scale ==
    /\ pc = "stream_scale"
    /\ LET a == loc.arg[1]
           b == loc.arg[2]
       IN  StreamTurn({a}, b,
                      {Times(ScaleScalar, x) : x \in ArrayVals(heap, a, loc.i)},
                      ArrayFaults(heap, a, loc.i, TRUE)
                        \cup ArrayFaults(heap, b, loc.i, FALSE),
                      "stream_scale")

\* stream_add(a, b, c, n): c[i] = a[i] + b[i]
stream_add ==
    /\ pc = "stream_add"
    /\ LET a == loc.arg[1]
           b == loc.arg[2]
           c == loc.arg[3]
       IN  StreamTurn({a, b}, c,
                      {Plus(x, y) : x \in ArrayVals(heap, a, loc.i),
                                    y \in ArrayVals(heap, b, loc.i)},
                      ArrayFaults(heap, a, loc.i, TRUE)
                        \cup ArrayFaults(heap, b, loc.i, TRUE)
                        \cup ArrayFaults(heap, c, loc.i, FALSE),
                      "stream_add")

\* a[i] = scalar * c[i]: the term b[i] left out
Triad_without_b(b, c, scalar) == Times(scalar, c)

\* the value stream_triad gives a[i]: b[i] + scalar * c[i]
Triad(b, c, scalar) == Plus(b, Times(scalar, c))

\* stream_triad(a, b, c, scalar, n): a[i] = b[i] + scalar * c[i]
stream_triad ==
    /\ pc = "stream_triad"
    /\ LET a == loc.arg[1]
           b == loc.arg[2]
           c == loc.arg[3]
       IN  StreamTurn({b, c}, a,
                      {Triad(y, z, TriadScalar) : y \in ArrayVals(heap, b, loc.i),
                                                  z \in ArrayVals(heap, c, loc.i)},
                      ArrayFaults(heap, b, loc.i, TRUE)
                        \cup ArrayFaults(heap, c, loc.i, TRUE)
                        \cup ArrayFaults(heap, a, loc.i, FALSE),
                      "stream_triad")

\* the statement of main() the loop over rep goes back to
LoopHead ==
    CHOOSE t \in DOMAIN stream_bench_main : stream_bench_main[t][1] = "stream_copy"

\* for (int rep = 0; rep < REPEAT_COUNT; rep++): the end of one repetition
repeat ==
    /\ pc = "repeat"
    /\ IF loc.rep + 1 < REPEAT_COUNT
       THEN /\ pc' = stream_bench_main[LoopHead][1]
            /\ loc' = [loc EXCEPT !.rep = loc.rep + 1, !.stmt = LoopHead,
                                  !.arg = stream_bench_main[LoopHead][2], !.i = 0]
            /\ trace' = Append(trace, "repeat")
       ELSE /\ pc' = Callee(loc)
            /\ loc' = [Return(loc) EXCEPT !.rep = loc.rep + 1]
            /\ trace' = Append(trace, "kernel")
    /\ UNCHANGED <<prog, glob, heap, rng, now, out, added, faults, run, prev>>

\* the index of the elements printed: 100 in the source, where ARRAY_SIZE is
\* 1024 * 1024; the last one of a smaller array
STREAM_CHK == Min(100, ARRAY_SIZE - 1)

\* printf("Final result checksum: a[100] = %f, b[100] = %f\n", a[100], b[100]);
stream_bench_printf ==
    /\ pc = "stream_bench_printf"
    /\ \E x \in ArrayVals(heap, "a", STREAM_CHK), y \in ArrayVals(heap, "b", STREAM_CHK) :
          out' = Append(out, [line |-> "checksum", v |-> <<x, y>>])
    /\ heap' = ArrayRead(ArrayRead(heap, "a", STREAM_CHK), "b", STREAM_CHK)
    /\ faults' = faults \cup ArrayFaults(heap, "a", STREAM_CHK, TRUE)
                         \cup ArrayFaults(heap, "b", STREAM_CHK, TRUE)
    /\ pc' = Callee(loc)
    /\ loc' = Return(loc)
    /\ trace' = Append(trace, "print_checksum")
    /\ UNCHANGED <<prog, glob, rng, now, added, run, prev>>

\* printf("Approximate memory bandwidth: %.2f GB/s\n", bandwidth_gb_s): the
\* number printed is total_bytes over time_taken
printf_bandwidth ==
    /\ pc = "printf_bandwidth"
    /\ out' = Append(out, [line |-> "bandwidth", v |-> <<loc.end - loc.start>>])
    /\ pc' = Callee(loc)
    /\ loc' = Return(loc)
    /\ trace' = Append(trace, "print_bandwidth")
    /\ UNCHANGED <<prog, glob, heap, rng, now, added, faults, run, prev>>

\* free(a); free(b); free(c);
free ==
    /\ pc = "free"
    /\ heap' = Free(heap, <<loc.arg, 0>>)
    /\ faults' = faults \cup FreeFaults(heap, <<loc.arg, 0>>)
    /\ pc' = Callee(loc)
    /\ loc' = Return(loc)
    /\ trace' = Append(trace, "free")
    /\ UNCHANGED <<prog, glob, rng, now, out, added, run, prev>>

(***************************************************************************)
(* kernels/kernel5.c                                                       *)
(***************************************************************************)
ZeroArray(n) == [i \in Idx(n) |-> 0]

\* float h[SIZE], w[SIZE]; int idx[SIZE]; before main() starts
kernel5_Start ==
    [pc |-> "kernel5_fill",
     loc |-> [Locals EXCEPT !.n = K5_SIZE],
     glob |-> [h |-> ZeroArray(K5_SIZE), w |-> ZeroArray(K5_SIZE),
               idx |-> ZeroArray(K5_SIZE)],
     heap |-> NoHeap,
     added |-> NoAdded]

\* h[i] = i; w[i] = SIZE - i; idx[i] = rand() % SIZE;
kernel5_fill ==
    /\ pc = "kernel5_fill"
    /\ IF loc.i < loc.n
       THEN /\ rng' = RandNext(rng)
            /\ glob' = [glob EXCEPT !.h[loc.i] = loc.i,
                                    !.w[loc.i] = loc.n - loc.i,
                                    !.idx[loc.i] = rng' % loc.n]
            /\ loc' = [loc EXCEPT !.i = loc.i + 1]
            /\ UNCHANGED <<pc, trace>>
       ELSE /\ pc' = Callee(loc)
            /\ loc' = Return(loc)
            /\ trace' = Append(trace, "fill")
            /\ UNCHANGED <<glob, rng>>
    /\ UNCHANGED <<prog, heap, now, out, added, faults, run, prev>>

\* h[idx[i]] += w[i];
kernel5_kernel ==
    /\ pc = "kernel5_kernel"
    /\ IF loc.i < loc.n
       THEN /\ glob' = [glob EXCEPT !.h[glob.idx[loc.i]] = @ + glob.w[loc.i]]
            /\ faults' = faults \cup
                  (IF glob.idx[loc.i] \in Idx(loc.n) THEN {} ELSE {"out_of_bounds"})
            /\ loc' = [loc EXCEPT !.i = loc.i + 1]
            /\ UNCHANGED <<pc, trace>>
       ELSE /\ pc' = Callee(loc)
            /\ loc' = Return(loc)
            /\ trace' = Append(trace, "kernel")
            /\ UNCHANGED <<glob, faults>>
    /\ UNCHANGED <<prog, heap, rng, now, out, added, run, prev>>

\* printf("Done.\n");
kernel5_printf ==
    /\ pc = "kernel5_printf"
    /\ out' = Append(out, [line |-> "Done.", v |-> <<>>])
    /\ pc' = Callee(loc)
    /\ loc' = Return(loc)
    /\ trace' = Append(trace, "print_done")
    /\ UNCHANGED <<prog, glob, heap, rng, now, added, faults, run, prev>>

(***************************************************************************)
(* Lab_2/kernels/kernel2.c                                                 *)
(***************************************************************************)
\* int A[N]; before main() starts
branch_Start ==
    [pc |-> "branch_fill",
     loc |-> [Locals EXCEPT !.n = BRANCH_N],
     glob |-> [A |-> ZeroArray(BRANCH_N)],
     heap |-> NoHeap,
     added |-> NoAdded]

\* A[i] = rand() % 100;
branch_fill ==
    /\ pc = "branch_fill"
    /\ IF loc.i < loc.n
       THEN /\ rng' = RandNext(rng)
            /\ glob' = [glob EXCEPT !.A[loc.i] = rng' % 100]
            /\ loc' = [loc EXCEPT !.i = loc.i + 1]
            /\ UNCHANGED <<pc, trace>>
       ELSE /\ pc' = Callee(loc)
            /\ loc' = [Return(loc) EXCEPT !.sum = 0]
            /\ trace' = Append(trace, "fill")
            /\ UNCHANGED <<glob, rng>>
    /\ UNCHANGED <<prog, heap, now, out, added, faults, run, prev>>

\* if (A[i] % 2 == 0) sum += A[i];
branch_kernel ==
    /\ pc = "branch_kernel"
    /\ IF loc.i < loc.n
       THEN /\ loc' = [loc EXCEPT
                          !.sum = IF glob.A[loc.i] % 2 = 0 THEN @ + glob.A[loc.i]
                                  ELSE @,
                          !.i = loc.i + 1]
            /\ UNCHANGED <<pc, trace>>
       ELSE /\ pc' = Callee(loc)
            /\ loc' = Return(loc)
            /\ trace' = Append(trace, "kernel")
    /\ UNCHANGED <<prog, glob, heap, rng, now, out, added, faults, run, prev>>

\* printf("Sum = %d\n", sum);
branch_printf ==
    /\ pc = "branch_printf"
    /\ out' = Append(out, [line |-> "checksum", v |-> <<loc.sum>>])
    /\ pc' = Callee(loc)
    /\ loc' = Return(loc)
    /\ trace' = Append(trace, "print_checksum")
    /\ UNCHANGED <<prog, glob, heap, rng, now, added, faults, run, prev>>

(***************************************************************************)
(* Lab_2/kernels/kernel4.c.  A has ARRAY_SIZE elements; what it holds is   *)
(* kept as one fact, that A[i] = i once the first loop ran.  sum is a long *)
(* long, kept as <<hi, lo>>, the number hi * LIMB + lo.                    *)
(***************************************************************************)
STRIDE == 4096

NUM_ACCESSES == 10000

BLOCK_SIZE == 64

TLB_ARRAY_SIZE == STRIDE * NUM_ACCESSES

LIMB == 1048576

\* int A[ARRAY_SIZE]; before main() starts
tlb_Start ==
    [pc |-> "tlb_fill",
     loc |-> [Locals EXCEPT !.sum = <<0, 0>>],
     glob |-> [filled |-> FALSE],
     heap |-> NoHeap,
     added |-> NoAdded]

\* for (int i = 0; i < ARRAY_SIZE; i++) A[i] = i;
tlb_fill ==
    /\ pc = "tlb_fill"
    /\ glob' = [glob EXCEPT !.filled = TRUE]
    /\ pc' = Callee(loc)
    /\ loc' = Return(loc)
    /\ trace' = Append(trace, "fill")
    /\ UNCHANGED <<prog, heap, rng, now, out, added, faults, run, prev>>

\* the index main() reads in the turn (block, i)
TlbIndex(block, i) == (block + i) * STRIDE

\* what a read of A[index] may give: the element, or, past the end of A,
\* whatever lies there, or a fault that kills the process (-1)
TlbRead(index) ==
    IF index >= 0 /\ index < TLB_ARRAY_SIZE
    THEN {IF glob.filled THEN index ELSE 0}
    ELSE Garbage \cup {-1}

\* sum + v
LongPlus(sum, v) ==
    <<sum[1] + (sum[2] + v) \div LIMB, (sum[2] + v) % LIMB>>

\* for (block = 0; block < NUM_ACCESSES; block += BLOCK_SIZE)
\*     for (i = 0; i < BLOCK_SIZE; i++) sum += A[(block + i) * STRIDE];
tlb_kernel ==
    /\ pc = "tlb_kernel"
    /\ IF loc.block < NUM_ACCESSES
       THEN IF loc.i < BLOCK_SIZE
            THEN \E v \in TlbRead(TlbIndex(loc.block, loc.i)) :
                    /\ faults' = faults \cup
                          (IF TlbIndex(loc.block, loc.i) < TLB_ARRAY_SIZE THEN {}
                           ELSE {"out_of_bounds"})
                    /\ IF v = -1
                       THEN /\ pc' = "crashed"
                            /\ UNCHANGED loc
                       ELSE /\ loc' = [loc EXCEPT !.sum = LongPlus(@, v),
                                                  !.i = loc.i + 1]
                            /\ UNCHANGED pc
                    /\ UNCHANGED trace
            ELSE /\ loc' = [loc EXCEPT !.block = loc.block + BLOCK_SIZE, !.i = 0]
                 /\ UNCHANGED <<pc, faults, trace>>
       ELSE /\ pc' = Callee(loc)
            /\ loc' = Return(loc)
            /\ trace' = Append(trace, "kernel")
            /\ UNCHANGED faults
    /\ UNCHANGED <<prog, glob, heap, rng, now, out, added, run, prev>>

\* printf("Sum = %lld\n", sum);
tlb_printf ==
    /\ pc = "tlb_printf"
    /\ out' = Append(out, [line |-> "checksum", v |-> <<loc.sum>>])
    /\ pc' = Callee(loc)
    /\ loc' = Return(loc)
    /\ trace' = Append(trace, "print_checksum")
    /\ UNCHANGED <<prog, glob, heap, rng, now, added, faults, run, prev>>

(***************************************************************************)
(* Lab_1/kernels/kernel2.c.  A float is held as twice its value, an        *)
(* integer: every value the program computes is a multiple of 0.5 that a   *)
(* float holds exactly.                                                    *)
(***************************************************************************)
\* float A[SIZE], B[SIZE]; float sum = 0; before main() starts
lab1_Starts ==
    {[pc |-> "lab1_fill",
      loc |-> [Locals EXCEPT !.n = size],
      glob |-> [A |-> ZeroArray(size), B |-> ZeroArray(size), sum |-> 0],
      heap |-> NoHeap,
      added |-> NoAdded] : size \in 1 .. LAB1_MAXSIZE}

\* twice the values the first loop gives A[i] and B[i]
Lab1A(i) == i

\* B[i] = (SIZE - i) * 0.5f
Lab1B_halved(i, size) == size - i

Lab1B(i, size) == 2 * size - i

\* A[i] = i * 0.5f; B[i] = SIZE - i * 0.5f;
lab1_fill ==
    /\ pc = "lab1_fill"
    /\ IF loc.i < loc.n
       THEN /\ glob' = [glob EXCEPT !.A[loc.i] = Lab1A(loc.i),
                                    !.B[loc.i] = Lab1B(loc.i, loc.n)]
            /\ loc' = [loc EXCEPT !.i = loc.i + 1]
            /\ UNCHANGED <<pc, trace>>
       ELSE /\ pc' = Callee(loc)
            /\ loc' = Return(loc)
            /\ trace' = Append(trace, "fill")
            /\ UNCHANGED glob
    /\ UNCHANGED <<prog, heap, rng, now, out, added, faults, run, prev>>

\* float diff = A[i] - B[i];
Diff(g, i) == g.A[i] - g.B[i]

\* if (diff > 0) sum += diff;
lab1_kernel ==
    /\ pc = "lab1_kernel"
    /\ IF loc.i < loc.n
       THEN /\ glob' = [glob EXCEPT !.sum = IF Diff(glob, loc.i) > 0
                                            THEN @ + Diff(glob, loc.i) ELSE @]
            /\ trace' = IF Diff(glob, loc.i) > 0 THEN Append(trace, "branch_taken")
                        ELSE trace
            /\ loc' = [loc EXCEPT !.i = loc.i + 1]
            /\ UNCHANGED pc
       ELSE /\ pc' = Callee(loc)
            /\ loc' = Return(loc)
            /\ trace' = Append(trace, "kernel")
            /\ UNCHANGED glob
    /\ UNCHANGED <<prog, heap, rng, now, out, added, faults, run, prev>>

\* printf("Result: %f\n", sum);
lab1_printf ==
    /\ pc = "lab1_printf"
    /\ out' = Append(out, [line |-> "checksum", v |-> <<glob.sum>>])
    /\ pc' = Callee(loc)
    /\ loc' = Return(loc)
    /\ trace' = Append(trace, "print_checksum")
    /\ UNCHANGED <<prog, glob, heap, rng, now, added, faults, run, prev>>

(***************************************************************************)
(* The program run a second time: a new process, in which nothing of the   *)
(* first run is left but what it printed (kept in prev).                   *)
(***************************************************************************)
Programs == {"mmm", "matrix_mult_unopt", "multiply_both", "image_blur_unopt",
             "image_blur", "stream_bench", "kernel5", "branch", "tlb", "lab1"}

\* the programs that are run twice
Repeated == {"matrix_mult_unopt", "branch"}

Starts(p) ==
    CASE p = "mmm" -> {mmm_Start}
      [] p = "matrix_mult_unopt" -> {matrix_mult_Start}
      [] p = "multiply_both" -> multiply_both_Starts
      [] p = "image_blur_unopt" -> {image_blur_Start}
      [] p = "image_blur" -> image_blur_Starts
      [] p = "stream_bench" -> {stream_bench_Start}
      [] p = "kernel5" -> {kernel5_Start}
      [] p = "branch" -> {branch_Start}
      [] p = "tlb" -> {tlb_Start}
      [] p = "lab1" -> lab1_Starts

Restart ==
    /\ pc = "done"
    /\ run = 1
    /\ prog \in Repeated
    /\ run' = 2
    /\ prev' = out
    /\ \E s \in Starts(prog) :
          /\ pc' = s.pc
          /\ loc' = s.loc
          /\ glob' = s.glob
          /\ heap' = s.heap
          /\ added' = s.added
    /\ rng' = DefaultSeed
    /\ now' = 0
    /\ out' = <<>>
    /\ trace' = <<>>
    /\ UNCHANGED <<prog, faults>>

(***************************************************************************)
(* The specification.                                                      *)
(***************************************************************************)
Init ==
    /\ rng = DefaultSeed
    /\ now = 0
    /\ out = <<>>
    /\ trace = <<>>
    /\ faults = {}
    /\ run = 1
    /\ prev = <<>>
    /\ prog \in Programs
    /\ \E s \in Starts(prog) :
          /\ pc = s.pc
          /\ loc = s.loc
          /\ glob = s.glob
          /\ heap = s.heap
          /\ added = s.added

Next ==
    \/ clock_start
    \/ clock_end
    \/ printf_time
    \/ main_return
    \/ init_matrices
    \/ matrix_multiply_naive
    \/ mmm_printf
    \/ srand
    \/ allocate_matrix
    \/ initialize_matrix
    \/ zero_matrix
    \/ matrix_multiply
    \/ matrix_mult_printf
    \/ free_matrix
    \/ allocate_image
    \/ initialize_image
    \/ image_blur
    \/ image_blur_printf
    \/ free_image
    \/ malloc
    \/ check_allocation
    \/ initialize_arrays
    \/ stream_copy
    \/ stream_scale
    \/ stream_add
    \/ stream_triad
    \/ repeat
    \/ stream_bench_printf
    \/ printf_bandwidth
    \/ free
    \/ kernel5_fill
    \/ kernel5_kernel
    \/ kernel5_printf
    \/ branch_fill
    \/ branch_kernel
    \/ branch_printf
    \/ tlb_fill
    \/ tlb_kernel
    \/ tlb_printf
    \/ lab1_fill
    \/ lab1_kernel
    \/ lab1_printf
    \/ Restart

Spec == Init /\ [][Next]_vars

(***************************************************************************)
(* What the claims read.                                                   *)
(***************************************************************************)
\* the event e happened in this run
Has(e) == \E t \in DOMAIN trace : trace[t] = e

\* the checksum lines among the lines o
Checksums(o) == SelectSeq(o, LAMBDA r : r.line = "checksum")

\* the time lines among the lines o
TimeLines(o) == SelectSeq(o, LAMBDA r : r.line = "time")

(***************************************************************************)
(* C1.  mmm.c: after init_matrices() and matrix_multiply_naive(), C[0][0]  *)
(* is the sum over k of A[0][k] * B[k][0], which is the sum of k * k, and  *)
(* every C[i][j] is the sum over k of (i + k) * (k - j); C[0][0] is what   *)
(* main() prints.                                                          *)
(***************************************************************************)
C1_NaiveProduct ==
    (prog = "mmm" /\ Has("kernel")) =>
        /\ glob.C[0][0] = SumTo([k \in Idx(MMM_N) |-> k * k], MMM_N)
        /\ \A i \in Idx(MMM_N), j \in Idx(MMM_N) :
              glob.C[i][j] = SumTo([k \in Idx(MMM_N) |-> (i + k) * (k - j)], MMM_N)
        /\ pc = "done" =>
              out[1].v[1] = SumTo([k \in Idx(MMM_N) |-> k * k], MMM_N)

C1_Witness ==
    /\ prog = "mmm"
    /\ pc = "done"
    /\ glob.C[0][0] > 0
    /\ glob.C[0][MMM_N - 1] < 0

(***************************************************************************)
(* C9.  matrix_multiply() (loops i, k, j) and matrix_multiply_naive()      *)
(* (loops i, j, k), given the same n, A, B and C, end with the same C:     *)
(* C[i][j] is its value on entry plus the sum over k of A[i][k] * B[k][j], *)
(* the terms of each C[i][j] added in ascending k by both; A and B are     *)
(* never changed; and what matrix_mult_unopt prints, C having been zeroed, *)
(* are elements of the product of A and B.                                 *)
(***************************************************************************)
C9_SameProduct ==
    /\ prog = "multiply_both" =>
          LET n == loc.n
          IN  /\ MatrixOf(heap, "A", n) = glob.A0
              /\ MatrixOf(heap, "B", n) = glob.B0
              /\ glob.A = glob.A0
              /\ glob.B = glob.B0
              /\ pc = "done" =>
                    \A i \in Idx(n), j \in Idx(n) :
                        /\ heap[<<"C", i>>].cells[j] =
                              glob.C0[i][j] + Dot(glob.A0, glob.B0, i, j, n)
                        /\ glob.C[i][j] = heap[<<"C", i>>].cells[j]
                        /\ added.ikj[i][j] = Ascending(n)
                        /\ added.ijk[i][j] = Ascending(n)
    /\ (prog = "matrix_mult_unopt" /\ Has("print_checksum")) =>
          LET n == loc.n
              A == MatrixOf(heap, "A", n)
              B == MatrixOf(heap, "B", n)
          IN  /\ \A i \in Idx(n), j \in Idx(n) :
                    heap[<<"C", i>>].cells[j] = Dot(A, B, i, j, n)
              /\ Checksums(out) =
                    <<[line |-> "checksum",
                       v |-> <<Dot(A, B, 0, 0, n), Dot(A, B, MM_CHK, MM_CHK, n)>>]>>

\* both kernels ran on a C that was not zero on entry, and the program ran too
C9_Witness ==
    /\ prog = "multiply_both"
    /\ pc = "done"
    /\ loc.n = MUL_MAXN
    /\ glob.C0[0][0] = 1
    /\ glob.C[1][1] > glob.C0[1][1]

(***************************************************************************)
(* C3.  A program that draws its data with rand(), run twice, prints the   *)
(* same checksums both times: matrix_mult_unopt (srand(42)) and the branch *)
(* kernel (no srand), whatever clock() returns and whatever malloc gives.  *)
(***************************************************************************)
C3_SameChecksums ==
    (prog \in Repeated /\ run = 2 /\ pc = "done") =>
        /\ Checksums(out) = Checksums(prev)
        /\ Len(Checksums(out)) = 1

\* the second run of matrix_mult_unopt ended, and took another time than the first
C3_Witness ==
    /\ prog = "matrix_mult_unopt"
    /\ run = 2
    /\ pc = "done"
    /\ TimeLines(out) # TimeLines(prev)

\* a repetition has just ended, or the loop has
RepetitionDone ==
    /\ prog = "stream_bench"
    /\ pc = "repeat" \/ Has("kernel")

(***************************************************************************)
(* C2.  stream_bench: as claimed, after every completed repetition of      *)
(* copy, scale, add, triad, a[i] = scalar * c[i] for every i, scalar the   *)
(* 1.5 of the triad.                                                       *)
(***************************************************************************)
C2_Original ==
    RepetitionDone =>
        \A i \in Idx(ARRAY_SIZE) :
            heap[<<"a", 0>>].cells[i] = Times(<<3, 1>>, heap[<<"c", 0>>].cells[i])

\* C2, amended: after every completed repetition a[i] = b[i] + scalar * c[i]
\* for every i
C2_TriadIdentity ==
    RepetitionDone =>
        \A i \in Idx(ARRAY_SIZE) :
            heap[<<"a", 0>>].cells[i] =
                Plus(heap[<<"b", 0>>].cells[i],
                     Times(<<3, 1>>, heap[<<"c", 0>>].cells[i]))

\* the last repetition ended
C2_Witness ==
    /\ prog = "stream_bench"
    /\ pc = "repeat"
    /\ loc.rep = REPEAT_COUNT - 1
    /\ heap[<<"a", 0>>].cells[0][2] = 2 * REPEAT_COUNT

StreamBlocks == {<<"a", 0>>, <<"b", 0>>, <<"c", 0>>}

AnyNull == \E b \in StreamBlocks : heap[b].st = "null"

\* how many times the event e happened
Count(e) == Cardinality({t \in DOMAIN trace : trace[t] = e})

(***************************************************************************)
(* C4.  stream_bench: when one of the three malloc calls fails, main()     *)
(* prints the failure message and returns 1, having run neither            *)
(* initialize_arrays nor a stream function and having read or written      *)
(* none of the blocks; when all three succeed it runs REPEAT_COUNT         *)
(* repetitions and returns 0.  It returns 1 exactly when a malloc failed.  *)
(***************************************************************************)
C4_AllocationFailure ==
    prog = "stream_bench" =>
        /\ pc # "crashed"
        /\ AnyNull =>
              /\ \A b \in StreamBlocks : heap[b].wr = {} /\ ~heap[b].rd
              /\ \A t \in DOMAIN trace : trace[t] \in {"alloc", "return"}
        /\ pc = "done" =>
              /\ loc.rc = (IF AnyNull THEN 1 ELSE 0)
              /\ AnyNull => out = <<[line |-> "Memory allocation failed", v |-> <<>>]>>
              /\ ~AnyNull =>
                    /\ loc.rep = REPEAT_COUNT
                    /\ \A e \in {"stream_copy", "stream_scale", "stream_add",
                                  "stream_triad"} : Count(e) = REPEAT_COUNT
                    /\ Len(Checksums(out)) = 1

\* only the second malloc failed, and main() returned
C4_Witness ==
    /\ prog = "stream_bench"
    /\ pc = "done"
    /\ loc.rc = 1
    /\ heap[<<"a", 0>>].st = "live"
    /\ heap[<<"b", 0>>].st = "null"
    /\ heap[<<"c", 0>>].st = "live"

(***************************************************************************)
(* C5.  kernel4.c: every index (block + i) * STRIDE the blocked loop reads *)
(* lies in 0 .. ARRAY_SIZE - 1, that is block + i < NUM_ACCESSES, in the   *)
(* last block too.                                                         *)
(***************************************************************************)
C5_InBounds ==
    (prog = "tlb" /\ pc = "tlb_kernel" /\ loc.block < NUM_ACCESSES
       /\ loc.i < BLOCK_SIZE) =>
        /\ TlbIndex(loc.block, loc.i) \in 0 .. (TLB_ARRAY_SIZE - 1)
        /\ loc.block + loc.i < NUM_ACCESSES

(***************************************************************************)
(* C10.  Lab_1 kernel2.c: A[i] - B[i] is i - SIZE, negative for every i,   *)
(* so the branch diff > 0 is never taken, sum stays 0 and 0 is printed,    *)
(* for every SIZE from 1 up (values held doubled).                         *)
(***************************************************************************)
C10_NeverTaken ==
    prog = "lab1" =>
        /\ glob.sum = 0
        /\ ~Has("branch_taken")
        /\ Has("fill") =>
              \A i \in Idx(loc.n) :
                  /\ glob.A[i] - glob.B[i] = 2 * (i - loc.n)
                  /\ glob.A[i] - glob.B[i] < 0
        /\ pc = "done" => out = <<[line |-> "checksum", v |-> <<0>>]>>

\* the run with the largest SIZE ended
C10_Witness ==
    /\ prog = "lab1"
    /\ pc = "done"
    /\ loc.n = LAB1_MAXSIZE
    /\ Has("kernel")

Allocating == {"image_blur_unopt", "matrix_mult_unopt", "stream_bench"}

\* event d never comes before event e
NeverBefore(d, e) ==
    \A t1 \in DOMAIN trace, t2 \in DOMAIN trace :
        (trace[t1] = d /\ trace[t2] = e) => t2 < t1

(***************************************************************************)
(* C6.  The programs that allocate (image_blur_unopt, matrix_mult_unopt,   *)
(* stream_bench): no block is read or written after it is freed, none is   *)
(* freed twice, no cell is read before it was written, a row-pointer array *)
(* is freed only after its rows, allocation comes before filling, filling  *)
(* before the kernel and the kernel before freeing, and when main()        *)
(* returns 0 every block that was allocated has been freed.                *)
(***************************************************************************)
C6_Lifetime ==
    prog \in Allocating =>
        /\ faults \subseteq {"null_deref"}
        /\ \A b \in DOMAIN heap :
              (b[2] = -1 /\ heap[b].st = "freed") =>
                  \A r \in DOMAIN heap :
                      r[1] = b[1] => heap[r].st \in {"freed", "null"}
        /\ NeverBefore("fill", "alloc")
        /\ NeverBefore("kernel", "fill")
        /\ NeverBefore("print_checksum", "kernel")
        /\ \A e \in {"alloc", "fill", "kernel", "print_checksum"} :
              NeverBefore("free", e)
        /\ (pc = "done" /\ loc.rc = 0) =>
              /\ \A b \in DOMAIN heap : heap[b].st \in {"freed", "null"}
              /\ Has("print_checksum")

\* image_blur_unopt returned with every row of both images allocated, and freed
C6_Witness ==
    /\ prog = "image_blur_unopt"
    /\ pc = "done"
    /\ \A b \in DOMAIN heap : heap[b].st = "freed"
    /\ heap[<<"input", 0>>].rd
    /\ heap[<<"output", OFFSET>>].wr # {}

\* the programs of the repository (the others are single calls)
Repository == Programs \ {"multiply_both", "image_blur"}

\* the programs that call clock()
Timed == {"mmm", "stream_bench", "matrix_mult_unopt", "image_blur_unopt"}

KernelEvents == {"kernel", "repeat", "stream_copy", "stream_scale", "stream_add",
                 "stream_triad"}

Positions(E) == {t \in DOMAIN trace : trace[t] \in E}

\* the kernel ran between two clock() readings
KernelTimed ==
    /\ Count("clock") = 2
    /\ \A t \in Positions(KernelEvents) :
          \E t1 \in Positions({"clock"}), t2 \in Positions({"clock"}) :
              t1 < t /\ t < t2

\* the arrays were allocated and filled before the first clock() reading
FilledFirst ==
    /\ Has("clock")
    /\ \A t \in Positions({"alloc", "fill"}), t1 \in Positions({"clock"}) : t < t1

\* after the kernel an elapsed time and a checksum were printed
PrintsBoth ==
    /\ \E r \in DOMAIN out : out[r].line \in {"time", "checksum_time"}
    /\ \E r \in DOMAIN out : out[r].line \in {"checksum", "checksum_time"}
    /\ \A t \in Positions({"print_time", "print_checksum", "print_checksum_time"}),
          t1 \in Positions(KernelEvents) : t1 < t

(***************************************************************************)
(* C7.  As claimed: every program allocates and fills its arrays, then     *)
(* takes a clock() reading, runs its kernel, takes a second reading, and   *)
(* prints an elapsed time and a checksum.                                  *)
(***************************************************************************)
C7_Original ==
    (prog \in Repository /\ pc = "done" /\ Has("kernel")) =>
        /\ KernelTimed
        /\ FilledFirst
        /\ PrintsBoth

\* C7, amended: in the four programs that call clock() the kernel runs
\* between the two readings and an elapsed time and a checksum are printed
\* after it; three of them fill their arrays before the first reading, while
\* mmm.c fills them after it and prints time and checksum in one line; the
\* other four programs never call clock() and print no time, and kernel5.c
\* prints no checksum either
C7_TimedPrograms ==
    (prog \in Repository /\ pc = "done" /\ Has("kernel")) =>
        /\ prog \in Timed => KernelTimed /\ PrintsBoth
        /\ prog \in Timed \ {"mmm"} => FilledFirst
        /\ prog = "mmm" =>
              trace = <<"clock", "fill", "kernel", "clock", "print_checksum_time",
                        "return">>
        /\ prog \notin Timed =>
              /\ ~Has("clock")
              /\ \A r \in DOMAIN out : out[r].line \notin {"time", "checksum_time"}
              /\ Len(Checksums(out)) = (IF prog = "kernel5" THEN 0 ELSE 1)

\* matrix_mult_unopt ended, having printed its two lines
C7_Witness ==
    /\ prog = "matrix_mult_unopt"
    /\ pc = "done"
    /\ Has("kernel")
    /\ Len(out) = 2

Abs(v) == IF v < 0 THEN -v ELSE v

RECURSIVE SumOver(_, _)
\* the sum of f[e] over the elements e of S
SumOver(f, S) ==
    IF S = {} THEN 0
    ELSE LET e == CHOOSE e \in S : TRUE IN f[e] + SumOver(f, S \ {e})

Around == (-2 .. 2) \X (-2 .. 2)

\* the weighted sum of the neighbours of pixel (x, y) of img
Weighted(img, x, y) ==
    SumOver([d \in Around |-> img[y + d[2]][x + d[1]] * (3 - Max(Abs(d[1]), Abs(d[2])))],
            Around)

Interior(w, h) == (2 .. w - 3) \X (2 .. h - 3)

(***************************************************************************)
(* C8.  image_blur(), for any width and height and any input of pixels in  *)
(* 0..255: it reads input only inside the image and never changes it; it   *)
(* writes output[y][x] for the interior pixels (offset <= x < width -      *)
(* offset, offset <= y < height - offset) and no other; what it writes is   *)
(* S / 35 rounded down, S the sum of the 25 neighbours weighted 3 in the   *)
(* centre, 2 at distance 1 and 1 at distance 2; the weights sum to         *)
(* kernel_sum = 35, so the value is in 0..255 and the store keeps it.      *)
(***************************************************************************)
C8_Blur ==
    prog = "image_blur" =>
        LET w == loc.w
            h == loc.h
        IN  /\ faults = {}
            /\ kernel_sum = 35
            /\ SumOver([d \in Around |-> kernel[d[2] + 3][d[1] + 3]], Around) = kernel_sum
            /\ \A y \in Idx(h), x \in Idx(w) :
                  /\ heap[<<"input", y>>].cells[x] = glob.input0[y][x]
                  /\ IF x \in heap[<<"output", y>>].wr
                     THEN /\ <<x, y>> \in Interior(w, h)
                          /\ heap[<<"output", y>>].cells[x] =
                                Weighted(glob.input0, x, y) \div 35
                          /\ heap[<<"output", y>>].cells[x] \in 0 .. 255
                     ELSE heap[<<"output", y>>].cells[x] = glob.output0[y][x]
            /\ pc = "done" =>
                  \A y \in Idx(h), x \in Idx(w) :
                      <<x, y>> \in Interior(w, h) <=> x \in heap[<<"output", y>>].wr

\* a white image of the largest width was blurred: the largest sum there is
C8_Witness ==
    /\ prog = "image_blur"
    /\ pc = "done"
    /\ loc.w = WIDTH
    /\ loc.h = HEIGHT - 1
    /\ glob.input0[0][0] = 255
    /\ glob.input0[0][1] = 255
    /\ heap[<<"output", OFFSET>>].cells[OFFSET] = 255
    /\ heap[<<"output", OFFSET>>].cells[0] = glob.output0[OFFSET][0]

====
